---- MODULE Spec2Model ----
(***************************************************************************)
(* Note password protection of the note-taking page (NoteTakingApp):       *)
(* the notes collection, the active note copy, the unlocked set, the       *)
(* password dialog and the EncryptionService they call.                    *)
(*                                                                         *)
(* Data abstraction.  A content string is [pt, layers]: pt is the typed    *)
(* text (0 is the empty string) and layers is the stack of AES-GCM         *)
(* envelopes wrapped around it, innermost first; each layer records the    *)
(* password the key was derived from and the salt and iv that were drawn.  *)
(* A content with no layer is plaintext.  A password field is <<>> for     *)
(* undefined, <<"sha256", k>> for the digest of password k and             *)
(* <<"undefined">> for the nine-letter string "undefined".                 *)
(*                                                                         *)
(* The page handlers are guarded by what src/ shows (rendering conditions, *)
(* disabled flags, early returns).  The dialog component's modality comes  *)
(* from a library outside src/ and is not assumed, except in SpecAsync.    *)
(*                                                                         *)
(* Specifications.                                                         *)
(*   Spec         the page, every handler run to completion, salt and iv   *)
(*                drawn out of Salts and Ivs.                              *)
(*   SpecService  the page with the environment of the service: salt and   *)
(*                iv are values never drawn before, and an awaited call    *)
(*                may throw.                                               *)
(*   SpecAsync    the page with handlePasswordSubmit split at its first    *)
(*                await; the dialog is modal.                              *)
(*   SpecCrypto   encrypt and decrypt called directly, on bytes.           *)
(*   SpecMount    Spec plus a reload of the page at any time.              *)
(*   SpecPins     Spec plus togglePin.                                     *)
(*   SpecDialog   the page driven through the form of the PasswordDialog.  *)
(*   SpecView     Spec plus the exports and the AI button.                 *)
(* svc is the state of a caller of the service (draws made, submits begun, *)
(* strings sealed and opened); inflight holds the suspended submits;       *)
(* fields is the local state of the PasswordDialog component and download  *)
(* is the file written by the handler that ran last, if it was an export.  *)
(***************************************************************************)
EXTENDS Integers, Sequences, FiniteSets, TLC

\* ------------------------------------------------------------------ bounds
MaxId == 2          \* ids Date.now() hands out during one run
MaxPw == 2          \* distinct passwords a user types
MaxText == 1        \* distinct non-empty texts a user types
MaxSalt == 1        \* distinct values of the random salt
MaxIv == 1          \* distinct values of the random iv
MaxLayers == 1      \* nesting depth of envelopes kept in a content
MaxLen == 2         \* units in a string handed to encrypt
MaxDraw == 2        \* distinct values getRandomValues returns to the service caller
MaxInflight == 2    \* submits suspended at an await at the same time
MaxSubmits == 2     \* submits that reach an await in one run with suspended submits

\* --------------------------------------------------------------- constants
SaltLen == 16       \* bytes of salt drawn by encrypt
IvLen == 12         \* bytes of iv drawn by encrypt
DecSaltEnd == 16    \* decrypt: salt is combined.slice(0, 16)
DecIvEnd == 28      \* decrypt: iv is combined.slice(16, 28), the rest is ciphertext

Passwords == 1..MaxPw
Texts == 0..MaxText
Salts == 1..MaxSalt
Ivs == 1..MaxIv

VARIABLES notes, activeNote, unlockedNotes, passwordDialog, showAIPanel,
          nextId, last, svc, inflight, fields, download

vars == <<notes, activeNote, unlockedNotes, passwordDialog, showAIPanel,
          nextId, last, svc, inflight, fields, download>>

\* ------------------------------------------------------- EncryptionService
Plain(t) == [pt |-> t, layers |-> <<>>]

IsPlain(c) == c.layers = <<>>

IsEnvelope(c) == c.layers # <<>>

\* encrypt: salt || iv || AES-GCM(PBKDF2(password, salt), iv, content)
Encrypt(c, k, salt, iv) ==
    [pt |-> c.pt, layers |-> Append(c.layers, [key |-> k, salt |-> salt, iv |-> iv])]

DecryptOk_Any(c, k) == TRUE

\* decrypt succeeds iff the outer layer was sealed under the same password;
\* plaintext (no layer) never carries a valid tag
DecryptOk(c, k) == IsEnvelope(c) /\ c.layers[Len(c.layers)].key = k

Decrypt(c, k) == [pt |-> c.pt, layers |-> SubSeq(c.layers, 1, Len(c.layers) - 1)]

Undefined == <<>>

StrUndefined == <<"undefined">>

hashPassword(k) == <<"sha256", k>>

\* `${x}`: undefined becomes the string "undefined", a string stays itself
TemplateString(p) == IF p = Undefined THEN StrUndefined ELSE p

\* message of the Error thrown by decrypt
DecryptErrorMessage == "Invalid password or corrupted data"

\* ------------------------------------------ EncryptionService, byte level
\* A string is a sequence of UTF-16 units out of Chars: a letter, U+FEFF,
\* an unpaired surrogate and U+FFFD.  A byte of an envelope is [x, tag]: x is
\* its value and tag is <<>> except for the AES-GCM tag, which is abstracted
\* to one byte that records the key, iv and data it authenticates.
Chars == {"a", "FEFF", "D800", "FFFD"}

Strings == UNION {[1..n -> Chars] : n \in 0..MaxLen}

Draws == 1..MaxDraw

\* UTF-8 of one unit; TextEncoder replaces an unpaired surrogate by U+FFFD
EncodeChar(c) ==
    IF c = "a" THEN <<97>>
    ELSE IF c = "FEFF" THEN <<239, 187, 191>>
    ELSE <<239, 191, 189>>

\* encoder.encode(content)
RECURSIVE encode(_)
encode(str) == IF str = <<>> THEN <<>> ELSE EncodeChar(Head(str)) \o encode(Tail(str))

RECURSIVE DecodeUtf8(_)
DecodeUtf8(b) ==
    IF b = <<>> THEN <<>>
    ELSE IF b[1] < 128 THEN <<"a">> \o DecodeUtf8(Tail(b))
    ELSE IF Len(b) >= 3 /\ SubSeq(b, 1, 3) = <<239, 187, 191>>
         THEN <<"FEFF">> \o DecodeUtf8(SubSeq(b, 4, Len(b)))
    ELSE IF Len(b) >= 3 /\ SubSeq(b, 1, 3) = <<239, 191, 189>>
         THEN <<"FFFD">> \o DecodeUtf8(SubSeq(b, 4, Len(b)))
    ELSE <<"FFFD">> \o DecodeUtf8(Tail(b))

\* decoder.decode(decrypted), the decoder being new TextDecoder(): utf-8,
\* not fatal, ignoreBOM false, so a leading U+FEFF is dropped
decode(b) ==
    LET str == DecodeUtf8(b)
    IN IF str # <<>> /\ Head(str) = "FEFF" THEN Tail(str) ELSE str

Byte(x) == [x |-> x, tag |-> <<>>]

\* crypto.getRandomValues(new Uint8Array(n)), v being the value drawn
getRandomValues(n, v) == [i \in 1..n |-> Byte(v)]

\* bytes.slice(from, to)
Slice(bytes, from, to) ==
    IF from >= Len(bytes) THEN <<>>
    ELSE SubSeq(bytes, from + 1, IF to < Len(bytes) THEN to ELSE Len(bytes))

\* a string that btoa made out of bytes
toBase64(bytes) == [b64 |-> bytes]

fromBase64(b64) == b64.b64

\* PBKDF2-SHA-256 over (password, salt) into an AES-GCM key
deriveKey(password, salt) == <<password, salt>>

GcmTag(key, iv, data) == [x |-> 0, tag |-> <<key, iv, data>>]

\* crypto.subtle.encrypt({name: "AES-GCM", iv}, key, data): ciphertext || tag
SubtleEncrypt(key, iv, data) ==
    [i \in 1..Len(data) |-> Byte(data[i])] \o <<GcmTag(key, iv, data)>>

SubtleData(encrypted) == [i \in 1..(Len(encrypted) - 1) |-> encrypted[i].x]

SubtleDecryptOk_NoTag(key, iv, encrypted) == Len(encrypted) >= 1

\* crypto.subtle.decrypt resolves iff the tag authenticates the ciphertext
\* under this key and iv
SubtleDecryptOk(key, iv, encrypted) ==
    /\ Len(encrypted) >= 1
    /\ \A i \in 1..(Len(encrypted) - 1) : encrypted[i].tag = <<>>
    /\ encrypted[Len(encrypted)] = GcmTag(key, iv, SubtleData(encrypted))

\* encrypt(content, password), s and v being the salt and iv drawn
encrypt(content, password, s, v) ==
    LET salt == getRandomValues(SaltLen, s)
        iv == getRandomValues(IvLen, v)
        key == deriveKey(password, salt)
        encrypted == SubtleEncrypt(key, iv, encode(content))
    IN toBase64(salt \o iv \o encrypted)

\* what decrypt gives back: the string it returns or the Error it throws
Returned(str) == [ok |-> TRUE, value |-> str, error |-> ""]

Thrown(message) == [ok |-> FALSE, value |-> <<>>, error |-> message]

\* decrypt(encryptedContent, password)
decrypt(encryptedContent, password) ==
    LET combined == fromBase64(encryptedContent)
        salt == Slice(combined, 0, DecSaltEnd)
        iv == Slice(combined, DecSaltEnd, DecIvEnd)
        encrypted == Slice(combined, DecIvEnd, Len(combined))
        key == deriveKey(password, salt)
    IN IF SubtleDecryptOk(key, iv, encrypted)
       THEN Returned(decode(SubtleData(encrypted)))
       ELSE Thrown(DecryptErrorMessage)

\* what a caller of the service holds: the draws made so far, the submits
\* that reached it, the string and password it sealed, the envelope it got, the string and password it hands
\* to decrypt and what decrypt gave back
IdleService ==
    [draws |-> 0, submits |-> 0, stage |-> "idle", content |-> <<>>, password |-> 0,
     envelope |-> toBase64(<<>>), input |-> toBase64(<<>>), change |-> "none",
     attempt |-> 0, result |-> Thrown("")]

\* ------------------------------------------------------------------- state
Null ==
    [id |-> 0, content |-> Plain(0), isPasswordProtected |-> FALSE,
     password |-> Undefined, isPinned |-> FALSE]

ClosedDialog ==
    [isOpen |-> FALSE, mode |-> "verify", noteId |-> 0, isLoading |-> FALSE, error |-> ""]

OpenDialog(mode, id) ==
    [isOpen |-> TRUE, mode |-> mode, noteId |-> id, isLoading |-> FALSE, error |-> ""]

\* the local state of the PasswordDialog component: what its two inputs hold
\* (0: the empty string)
EmptyFields == [password |-> 0, confirmPassword |-> 0]

\* the file that the handler that ran last handed to the browser: none, or
\* the content part of each note written to the Blob, in the order written
NoDownload == <<>>

Ids == {notes[i].id : i \in 1..Len(notes)}

HasNote(id) == id \in Ids

NoteIn(ns, id) == ns[CHOOSE i \in 1..Len(ns) : ns[i].id = id]

NoteById(id) == NoteIn(notes, id)

RECURSIVE FilterOut(_, _)
FilterOut(ns, id) ==
    IF ns = <<>> THEN <<>>
    ELSE IF Head(ns).id = id THEN FilterOut(Tail(ns), id)
    ELSE <<Head(ns)>> \o FilterOut(Tail(ns), id)

IsLocked(n, u) == n.isPasswordProtected /\ n.id \notin u

isActiveLocked(a, u) == a # Null /\ IsLocked(a, u)

\* history, read by no handler: the handler that ran last, how it ended, the
\* password it was given (0: none) and the EncryptionService calls it made
Step(op, outcome, pw, calls) == [op |-> op, outcome |-> outcome, pw |-> pw, calls |-> calls]

\* one render: the new state plus the effect that closes the AI panel when
\* the active note becomes locked; a handler that ends here wrote no file
Commit(n, a, u, d, s, l) ==
    /\ download' = NoDownload
    /\ notes' = n
    /\ activeNote' = a
    /\ unlockedNotes' = u
    /\ passwordDialog' = d
    /\ showAIPanel' = IF isActiveLocked(a, u) /\ ~isActiveLocked(activeNote, unlockedNotes)
                      THEN FALSE ELSE s
    /\ last' = l

Init ==
    /\ notes = <<>>
    /\ activeNote = Null
    /\ unlockedNotes = {}
    /\ passwordDialog = ClosedDialog
    /\ showAIPanel = FALSE
    /\ nextId = 1
    /\ last = Step("init", "ok", 0, <<>>)
    /\ svc = IdleService
    /\ inflight = {}
    /\ fields = EmptyFields
    /\ download = NoDownload

\* ---------------------------------------------------------------- handlers
createNewNote ==
    /\ nextId <= MaxId
    /\ LET newNote == [id |-> nextId, content |-> Plain(0), isPasswordProtected |-> FALSE,
                       password |-> Undefined, isPinned |-> FALSE]
       IN Commit(<<newNote>> \o notes, newNote, unlockedNotes, passwordDialog, showAIPanel,
                 Step("createNewNote", "ok", 0, <<>>))
    /\ nextId' = nextId + 1
    /\ UNCHANGED <<svc, inflight, fields>>

\* duplicateNote(noteId); prompt is what window.prompt returned (0: cancelled
\* or empty)
DuplicateOf(originalNote, id, contentForCopy) ==
    [originalNote EXCEPT !.id = id, !.content = contentForCopy, !.isPinned = FALSE,
                         !.isPasswordProtected = TRUE,
                         !.password = TemplateString(originalNote.password)]

duplicateNote(noteId, prompt) ==
    /\ HasNote(noteId)
    /\ LET originalNote == NoteById(noteId)
           needsPassword == originalNote.isPasswordProtected /\ noteId \notin unlockedNotes
           hashChecked == originalNote.password # Undefined
           hashOk == ~hashChecked \/ hashPassword(prompt) = originalNote.password
           calls == IF hashChecked THEN <<"hashPassword">> ELSE <<>>
           Abort(outcome, cs) ==
               /\ Commit(notes, activeNote, unlockedNotes, passwordDialog, showAIPanel,
                         Step("duplicateNote", outcome, prompt, cs))
               /\ nextId' = nextId
           Finish(contentForCopy, cs) ==
               /\ nextId <= MaxId
               /\ LET duplicatedNote == DuplicateOf(originalNote, nextId, contentForCopy)
                  IN Commit(<<duplicatedNote>> \o notes, duplicatedNote, unlockedNotes,
                            passwordDialog, showAIPanel,
                            Step("duplicateNote", "ok", prompt, cs))
               /\ nextId' = nextId + 1
       IN IF ~needsPassword THEN prompt = 0 /\ Finish(originalNote.content, <<>>)
          ELSE IF prompt = 0 THEN Abort("NoPassword", <<>>)
          ELSE IF ~hashOk THEN Abort("Incorrect password", calls)
          ELSE IF ~DecryptOk(originalNote.content, prompt)
               THEN Abort("Failed to decrypt", Append(calls, "decrypt"))
          ELSE Finish(Decrypt(originalNote.content, prompt), Append(calls, "decrypt"))
    /\ UNCHANGED <<svc, inflight, fields>>

\* updateNote(updatedNote): the stored note is replaced by the caller's copy
UpdateStored(prev, updatedNote) ==
    [i \in 1..Len(prev) |-> IF prev[i].id = updatedNote.id THEN updatedNote ELSE prev[i]]

\* callers: Editor (content, title), Toolbar, AIPanel, all with a copy of
\* activeNote and all disabled or unrendered while the active note is locked
updateNote(updatedNote) ==
    /\ activeNote # Null
    /\ ~isActiveLocked(activeNote, unlockedNotes)
    /\ updatedNote.id = activeNote.id
    /\ Commit(UpdateStored(notes, updatedNote), updatedNote, unlockedNotes, passwordDialog,
              showAIPanel, Step("updateNote", "ok", 0, <<>>))
    /\ UNCHANGED <<nextId, svc, inflight, fields>>

EditorUpdates ==
    {[activeNote EXCEPT !.content = c] :
        c \in {Plain(t) : t \in Texts} \cup {activeNote.content}}

AfterDelete_Keep(u, id) == u

\* unlockedNotes after deleteNote
AfterDelete(u, id) == u \ {id}

deleteNote_KeepActive(noteId) ==
    /\ HasNote(noteId)
    /\ Commit(FilterOut(notes, noteId), activeNote, AfterDelete(unlockedNotes, noteId),
              passwordDialog, showAIPanel, Step("deleteNote", "ok", 0, <<>>))
    /\ UNCHANGED <<nextId, svc, inflight, fields>>

deleteNote(noteId) ==
    /\ HasNote(noteId)
    /\ LET remainingNotes == FilterOut(notes, noteId)
           a == IF activeNote.id = noteId
                THEN (IF Len(remainingNotes) > 0 THEN remainingNotes[1] ELSE Null)
                ELSE activeNote
       IN Commit(remainingNotes, a, AfterDelete(unlockedNotes, noteId), passwordDialog,
                 showAIPanel, Step("deleteNote", "ok", 0, <<>>))
    /\ UNCHANGED <<nextId, svc, inflight, fields>>

deleteAllNotes(confirmed) ==
    /\ IF confirmed
       THEN Commit(<<>>, Null, {}, passwordDialog, showAIPanel,
                   Step("deleteAllNotes", "ok", 0, <<>>))
       ELSE Commit(notes, activeNote, unlockedNotes, passwordDialog, showAIPanel,
                   Step("deleteAllNotes", "cancelled", 0, <<>>))
    /\ UNCHANGED <<nextId, svc, inflight, fields>>

handleNoteSelect(note) ==
    /\ IF IsLocked(note, unlockedNotes)
       THEN Commit(notes, activeNote, unlockedNotes, OpenDialog("verify", note.id),
                   showAIPanel, Step("handleNoteSelect", "dialog", 0, <<>>))
       ELSE Commit(notes, note, unlockedNotes, passwordDialog, showAIPanel,
                   Step("handleNoteSelect", "ok", 0, <<>>))
    /\ UNCHANGED <<nextId, svc, inflight, fields>>

\* the removal branch of togglePasswordProtection
RemoveProtection(n) == [n EXCEPT !.isPasswordProtected = FALSE, !.password = Undefined]

\* setNotes of the removal branch
RemoveStored(prev, id) ==
    [i \in 1..Len(prev) |-> IF prev[i].id = id THEN RemoveProtection(prev[i]) ELSE prev[i]]

AfterRemove_Keep(u, id) == u

\* unlockedNotes after the removal branch
AfterRemove(u, id) == u \ {id}

\* whether the removal branch runs for a protected note (the code asks only
\* for the window.confirm answer)
MayRemoveProtection(note, u, confirmed) == confirmed

togglePasswordProtection(noteId, confirmed) ==
    /\ HasNote(noteId)
    /\ LET note == NoteById(noteId)
       IN IF note.isPasswordProtected
          THEN IF MayRemoveProtection(note, unlockedNotes, confirmed)
               THEN Commit(RemoveStored(notes, noteId), activeNote,
                           AfterRemove(unlockedNotes, noteId), passwordDialog, showAIPanel,
                           Step("togglePasswordProtection", "removed", 0, <<>>))
               ELSE Commit(notes, activeNote, unlockedNotes, passwordDialog, showAIPanel,
                           Step("togglePasswordProtection", "cancelled", 0, <<>>))
          ELSE /\ ~confirmed
               /\ Commit(notes, activeNote, unlockedNotes, OpenDialog("set", noteId),
                         showAIPanel,
                         Step("togglePasswordProtection", "dialog", 0, <<>>))
    /\ UNCHANGED <<nextId, svc, inflight, fields>>

SetProtection_NoEncrypt(n, encryptedContent, passwordHash) ==
    [n EXCEPT !.isPasswordProtected = TRUE, !.password = passwordHash]

\* the stored note after a set-password submit
SetProtection(n, encryptedContent, passwordHash) ==
    [n EXCEPT !.content = encryptedContent, !.isPasswordProtected = TRUE,
              !.password = passwordHash]

\* setNotes of a set-password submit
SetStored(prev, id, encryptedContent, passwordHash) ==
    [i \in 1..Len(prev) |->
        IF prev[i].id = id THEN SetProtection(prev[i], encryptedContent, passwordHash)
        ELSE prev[i]]

\* unlockedNotes after a set-password submit
AfterSet(u, id) == u \ {id}

HashMatches_Any(inputPasswordHash, stored) == TRUE

\* the hash pre-filter of the verify branch
HashMatches(inputPasswordHash, stored) == inputPasswordHash = stored

\* the message thrown when the hash pre-filter rejects
IncorrectPasswordMessage == "Incorrect password"

DecryptGate_Skip(c, k) == TRUE

\* the gate after the hash pre-filter: decrypt must not throw
DecryptGate(c, k) == DecryptOk(c, k)

\* unlockedNotes after a successful verify
Unlock(u, id) == u \cup {id}

SubmitFail_Fallback(password, message, calls) ==
    Commit([i \in 1..Len(notes) |->
               IF notes[i].id = passwordDialog.noteId
               THEN [notes[i] EXCEPT !.isPasswordProtected = TRUE,
                                     !.password = hashPassword(password)]
               ELSE notes[i]],
           activeNote, unlockedNotes,
           [passwordDialog EXCEPT !.error = message, !.isLoading = FALSE],
           showAIPanel,
           Step("handlePasswordSubmit", message, password, calls))

\* the catch block of handlePasswordSubmit: only the dialog changes
SubmitFail(password, message, calls) ==
    Commit(notes, activeNote, unlockedNotes,
           [passwordDialog EXCEPT !.error = message, !.isLoading = FALSE],
           showAIPanel,
           Step("handlePasswordSubmit", message, password, calls))

SubmitDone_StoreActive(n, a, u, password, outcome, calls) ==
    Commit(UpdateStored(n, a), a, u,
           [passwordDialog EXCEPT !.isLoading = TRUE, !.error = "", !.isOpen = FALSE],
           showAIPanel,
           Step("handlePasswordSubmit", outcome, password, calls))

\* a submit that ran to its end: the dialog is closed, isLoading is left set
SubmitDone(n, a, u, password, outcome, calls) ==
    Commit(n, a, u,
           [passwordDialog EXCEPT !.isLoading = TRUE, !.error = "", !.isOpen = FALSE],
           showAIPanel,
           Step("handlePasswordSubmit", outcome, password, calls))

SubmitSet(note, password, salt, iv) ==
    LET id == passwordDialog.noteId
        encryptedContent == Encrypt(note.content, password, salt, iv)
        passwordHash == hashPassword(password)
        a == IF activeNote.id = id
             THEN SetProtection(note, encryptedContent, passwordHash)
             ELSE activeNote
    IN /\ Len(note.content.layers) < MaxLayers
       /\ SubmitDone(SetStored(notes, id, encryptedContent, passwordHash),
                     a, AfterSet(unlockedNotes, id), password, "set",
                     <<"encrypt", "hashPassword">>)

SubmitVerify(note, password) ==
    LET id == passwordDialog.noteId
    IN IF note.password = Undefined
       THEN SubmitFail(password, "No password set for this note", <<>>)
       ELSE IF ~HashMatches(hashPassword(password), note.password)
       THEN SubmitFail(password, IncorrectPasswordMessage, <<"hashPassword">>)
       ELSE IF ~DecryptGate(note.content, password)
       THEN SubmitFail(password, DecryptErrorMessage, <<"hashPassword", "decrypt">>)
       ELSE SubmitDone(notes, [note EXCEPT !.content = Decrypt(note.content, password)],
                       Unlock(unlockedNotes, id), password, "verified",
                       <<"hashPassword", "decrypt">>)

\* handlePasswordSubmit(password), run to completion; the form is rendered
\* while the dialog is open and its submit button is disabled while loading
\* (salt and iv are what encrypt draws; svc is set by the specification)
handlePasswordSubmit(password, salt, iv) ==
    /\ passwordDialog.isOpen
    /\ ~passwordDialog.isLoading
    /\ passwordDialog.noteId # 0
    /\ IF ~HasNote(passwordDialog.noteId)
       THEN salt = 1 /\ iv = 1 /\ SubmitFail(password, "Note not found", <<>>)
       ELSE IF passwordDialog.mode = "set"
       THEN SubmitSet(NoteById(passwordDialog.noteId), password, salt, iv)
       ELSE salt = 1 /\ iv = 1 /\ SubmitVerify(NoteById(passwordDialog.noteId), password)
    /\ UNCHANGED <<nextId, inflight, fields>>

\* onClose of the PasswordDialog
onClose ==
    /\ passwordDialog.isOpen
    /\ Commit(notes, activeNote, unlockedNotes,
              [passwordDialog EXCEPT !.isOpen = FALSE, !.error = ""], showAIPanel,
              Step("onClose", "ok", 0, <<>>))
    /\ UNCHANGED <<nextId, svc, inflight, fields>>

Relock_Noop(u, id) == u

\* unlockedNotes after onRelock: the id is deleted from a copy of the set
Relock(u, id) == u \ {id}

\* the relock button of the Toolbar, rendered when canRelock
onRelock ==
    /\ activeNote # Null
    /\ activeNote.isPasswordProtected
    /\ activeNote.id \in unlockedNotes
    /\ Commit(notes, activeNote, Relock(unlockedNotes, activeNote.id), passwordDialog,
              FALSE, Step("onRelock", "ok", 0, <<>>))
    /\ UNCHANGED <<nextId, svc, inflight, fields>>

\* onRequireUnlock of Toolbar and Editor, reached while the active note is locked
onRequireUnlock ==
    /\ isActiveLocked(activeNote, unlockedNotes)
    /\ Commit(notes, activeNote, unlockedNotes, OpenDialog("verify", activeNote.id),
              showAIPanel, Step("onRequireUnlock", "dialog", 0, <<>>))
    /\ UNCHANGED <<nextId, svc, inflight, fields>>

Next ==
    \/ createNewNote
    \/ \E id \in 1..MaxId, prompt \in 0..MaxPw : duplicateNote(id, prompt)
    \/ \E u \in EditorUpdates : updateNote(u)
    \/ \E id \in 1..MaxId : deleteNote(id)
    \/ \E c \in BOOLEAN : deleteAllNotes(c)
    \/ \E i \in 1..Len(notes) : handleNoteSelect(notes[i])
    \/ \E id \in 1..MaxId, c \in BOOLEAN : togglePasswordProtection(id, c)
    \/ \E k \in Passwords, salt \in Salts, iv \in Ivs :
           handlePasswordSubmit(k, salt, iv) /\ svc' = svc
    \/ onClose
    \/ onRelock
    \/ onRequireUnlock

Spec == Init /\ [][Next]_vars

\* ------------------------------------------------- the page with reloads
\* JSON.stringify of a note: a property whose value is undefined is left out
stringify(n) ==
    IF n.password = Undefined
    THEN [id |-> n.id, content |-> n.content,
          isPasswordProtected |-> n.isPasswordProtected, isPinned |-> n.isPinned]
    ELSE n

\* JSON.parse of a saved note: a property that was left out reads as undefined
parse(o) ==
    [id |-> o.id, content |-> o.content, isPasswordProtected |-> o.isPasswordProtected,
     isPinned |-> o.isPinned,
     password |-> IF "password" \in DOMAIN o THEN o.password ELSE Undefined]

firstUnprotectedNote_First(parsedNotes) == parsedNotes[1]

\* parsedNotes.find((note) => !note.isPasswordProtected) || null
firstUnprotectedNote(parsedNotes) ==
    IF \E i \in 1..Len(parsedNotes) : ~parsedNotes[i].isPasswordProtected
    THEN parsedNotes[CHOOSE i \in 1..Len(parsedNotes) :
                         /\ ~parsedNotes[i].isPasswordProtected
                         /\ \A j \in 1..(i - 1) : parsedNotes[j].isPasswordProtected]
    ELSE Null

\* The page is loaded again.  localStorage holds what the effect on notes
\* wrote last; sessionStorage holds what the effect on unlockedNotes wrote
\* last when the page is reloaded in its tab (sameSession) and nothing in a
\* new tab.  Every other piece of state starts from its useState value.
mount(sameSession) ==
    /\ LET parsedNotes == [i \in 1..Len(notes) |-> parse(stringify(notes[i]))]
           a == IF Len(parsedNotes) > 0 THEN firstUnprotectedNote(parsedNotes) ELSE Null
           u == IF sameSession THEN unlockedNotes ELSE {}
       IN Commit(parsedNotes, a, u, ClosedDialog, FALSE, Step("mount", "ok", 0, <<>>))
    /\ fields' = EmptyFields
    /\ inflight' = {}
    /\ UNCHANGED <<nextId, svc>>

NextMount ==
    \/ Next
    \/ \E sameSession \in BOOLEAN : mount(sameSession)

SpecMount == Init /\ [][NextMount]_vars

\* ---------------------------------------------------- the page with pins
\* setNotes of togglePin
PinStored(prev, id) ==
    [i \in 1..Len(prev) |->
        IF prev[i].id = id THEN [prev[i] EXCEPT !.isPinned = ~prev[i].isPinned] ELSE prev[i]]

\* togglePin(noteId), the Pin / Unpin item of a note's menu in the Sidebar
togglePin(noteId) ==
    /\ HasNote(noteId)
    /\ Commit(PinStored(notes, noteId), activeNote, unlockedNotes, passwordDialog,
              showAIPanel, Step("togglePin", "ok", 0, <<>>))
    /\ UNCHANGED <<nextId, svc, inflight, fields>>

NextPins ==
    \/ Next
    \/ \E id \in 1..MaxId : togglePin(id)

SpecPins == Init /\ [][NextPins]_vars

\* ------------------------------------- the page with the PasswordDialog form
\* a string of white space only, as a value of an input
Blank == MaxPw + 1

\* what an input of the dialog can hold: nothing, a password, white space
FieldValues == 0..Blank

\* password.trim(): white space only becomes the empty string
trim(p) == IF p = Blank THEN 0 ELSE p

isPasswordMismatch(mode, password, confirmPassword) ==
    mode = "set" /\ confirmPassword # 0 /\ password # confirmPassword

\* the submit button is enabled
SubmitEnabled(isLoading, mode, password, confirmPassword) ==
    ~(\/ isLoading
      \/ trim(password) = 0
      \/ mode = "set" /\ (confirmPassword = 0
                          \/ isPasswordMismatch(mode, password, confirmPassword)))

SubmitAllowed_NoConfirm(mode, password, confirmPassword) == trim(password) # 0

\* handleSubmit of the dialog reaches onSubmit(password)
SubmitAllowed(mode, password, confirmPassword) ==
    /\ ~(mode = "set" /\ password # confirmPassword)
    /\ trim(password) # 0

\* onChange of the password input, rendered while the dialog is open and
\* disabled while loading
setPassword(v) ==
    /\ passwordDialog.isOpen
    /\ ~passwordDialog.isLoading
    /\ v # fields.password
    /\ fields' = [fields EXCEPT !.password = v]
    /\ Commit(notes, activeNote, unlockedNotes, passwordDialog, showAIPanel,
              Step("setPassword", "ok", 0, <<>>))
    /\ UNCHANGED <<nextId, svc, inflight>>

\* onChange of the confirmation input, rendered in set mode
setConfirmPassword(v) ==
    /\ passwordDialog.isOpen
    /\ ~passwordDialog.isLoading
    /\ passwordDialog.mode = "set"
    /\ v # fields.confirmPassword
    /\ fields' = [fields EXCEPT !.confirmPassword = v]
    /\ Commit(notes, activeNote, unlockedNotes, passwordDialog, showAIPanel,
              Step("setConfirmPassword", "ok", 0, <<>>))
    /\ UNCHANGED <<nextId, svc, inflight>>

\* handleSubmit of the dialog, on a submit event of its form; onSubmit is
\* handlePasswordSubmit
handleSubmit ==
    /\ passwordDialog.isOpen
    /\ ~passwordDialog.isLoading
    /\ IF SubmitAllowed(passwordDialog.mode, fields.password, fields.confirmPassword)
       THEN \E salt \in Salts, iv \in Ivs :
                handlePasswordSubmit(fields.password, salt, iv) /\ svc' = svc
       ELSE /\ Commit(notes, activeNote, unlockedNotes, passwordDialog, showAIPanel,
                      Step("handleSubmit", "ignored", 0, <<>>))
            /\ UNCHANGED <<nextId, svc, inflight, fields>>

\* handleClose of the dialog (Cancel, Escape, a click outside): the inputs
\* are emptied, then onClose of the page runs
handleClose ==
    /\ passwordDialog.isOpen
    /\ fields' = EmptyFields
    /\ Commit(notes, activeNote, unlockedNotes,
              [passwordDialog EXCEPT !.isOpen = FALSE, !.error = ""], showAIPanel,
              Step("onClose", "ok", 0, <<>>))
    /\ UNCHANGED <<nextId, svc, inflight>>

NextDialog ==
    \/ createNewNote
    \/ \E id \in 1..MaxId, prompt \in 0..MaxPw : duplicateNote(id, prompt)
    \/ \E u \in EditorUpdates : updateNote(u)
    \/ \E id \in 1..MaxId : deleteNote(id)
    \/ \E c \in BOOLEAN : deleteAllNotes(c)
    \/ \E i \in 1..Len(notes) : handleNoteSelect(notes[i])
    \/ \E id \in 1..MaxId, c \in BOOLEAN : togglePasswordProtection(id, c)
    \/ \E v \in FieldValues : setPassword(v)
    \/ \E v \in FieldValues : setConfirmPassword(v)
    \/ handleSubmit
    \/ handleClose
    \/ onRelock
    \/ onRequireUnlock

SpecDialog == Init /\ [][NextDialog]_vars

\* ------------------------------------------- the page with what it shows
\* the text "[Password Protected Content]" written for a locked note
ProtectedPlaceholder == [kind |-> "placeholder", of |-> Plain(0)]

\* content.replace(/<[^>]*>/g, ""): the content without its markup
StripTags(c) == [kind |-> "stripped", of |-> c]

\* the content part of a note in an exported file
ExportedContent(note, u) ==
    IF note.isPasswordProtected /\ note.id \notin u
    THEN ProtectedPlaceholder
    ELSE StripTags(note.content)

\* a handler that writes a file and sets no state
Export(op, file) ==
    /\ download' = file
    /\ last' = Step(op, "ok", 0, <<>>)
    /\ UNCHANGED <<notes, activeNote, unlockedNotes, passwordDialog, showAIPanel,
                   nextId, svc, inflight, fields>>

exportNote(noteId) ==
    /\ HasNote(noteId)
    /\ Export("exportNote", <<ExportedContent(NoteById(noteId), unlockedNotes)>>)

exportAllNotes ==
    /\ Len(notes) # 0
    /\ Export("exportAllNotes",
              [i \in 1..Len(notes) |-> ExportedContent(notes[i], unlockedNotes)])

\* the predicate of filteredNotes; titleHit, contentHit and tagHit are what
\* the three includes(searchQuery) tests give for the note
filteredNotes(note, u, titleHit, contentHit, tagHit) ==
    \/ titleHit
    \/ (IF ~note.isPasswordProtected \/ note.id \in u THEN contentHit ELSE FALSE)
    \/ tagHit

\* the text "Password protected content" shown for a locked note
LockedPreview == [kind |-> "locked", of |-> Plain(0)]

\* truncateContent: markup stripped, cut to 60 characters, "No content" if empty
truncateContent(c) == [kind |-> "truncated", of |-> c]

\* Sidebar.getDisplayContent
getDisplayContent(note, u) ==
    IF note.isPasswordProtected /\ note.id \notin u
    THEN LockedPreview
    ELSE truncateContent(note.content)

\* the AIPanel element is part of the page
AIPanelRendered == activeNote # Null /\ ~isActiveLocked(activeNote, unlockedNotes)

\* the AI button: the one of the mobile top bar is always enabled, the one of
\* the Toolbar is rendered with an active note and disabled while it is locked
toggleAIPanel(fromToolbar) ==
    /\ fromToolbar => (activeNote # Null /\ ~isActiveLocked(activeNote, unlockedNotes))
    /\ Commit(notes, activeNote, unlockedNotes, passwordDialog, ~showAIPanel,
              Step("toggleAIPanel", "ok", 0, <<>>))
    /\ UNCHANGED <<nextId, svc, inflight, fields>>

NextView ==
    \/ Next
    \/ \E id \in 1..MaxId : exportNote(id)
    \/ exportAllNotes
    \/ \E fromToolbar \in BOOLEAN : toggleAIPanel(fromToolbar)

SpecView == Init /\ [][NextView]_vars

\* ------------------- the page with the environment of the service
\* message of the Error encrypt throws
EncryptErrorMessage == "Failed to encrypt content"

\* message of whatever crypto.subtle.digest rejects with in hashPassword
DigestErrorMessage == "digest rejected"

\* handlePasswordSubmit where the salt and iv that encrypt draws are values
\* never drawn before (svc.draws counts the draws)
submitFresh(password) ==
    \E d \in {1, svc.draws + 1} :
        /\ d <= MaxDraw
        /\ handlePasswordSubmit(password, d, d)
        /\ IF last'.outcome = "set"
           THEN d = svc.draws + 1 /\ svc' = [svc EXCEPT !.draws = d]
           ELSE d = 1 /\ svc' = svc

\* handlePasswordSubmit where the named call of the service throws
submitThrows(password, failing) ==
    /\ passwordDialog.isOpen
    /\ ~passwordDialog.isLoading
    /\ passwordDialog.noteId # 0
    /\ HasNote(passwordDialog.noteId)
    /\ LET note == NoteById(passwordDialog.noteId)
       IN IF passwordDialog.mode = "set"
          THEN \/ /\ failing = "encrypt"
                  /\ SubmitFail(password, EncryptErrorMessage, <<"encrypt">>)
               \/ /\ failing = "hashPassword"
                  /\ SubmitFail(password, DigestErrorMessage, <<"encrypt", "hashPassword">>)
          ELSE /\ note.password # Undefined
               /\ \/ /\ failing = "hashPassword"
                     /\ SubmitFail(password, DigestErrorMessage, <<"hashPassword">>)
                  \/ /\ failing = "decrypt"
                     /\ HashMatches(hashPassword(password), note.password)
                     /\ SubmitFail(password, DecryptErrorMessage,
                                   <<"hashPassword", "decrypt">>)
    /\ UNCHANGED <<nextId, svc, inflight, fields>>

NextService ==
    \/ createNewNote
    \/ \E id \in 1..MaxId, prompt \in 0..MaxPw : duplicateNote(id, prompt)
    \/ \E u \in EditorUpdates : updateNote(u)
    \/ \E id \in 1..MaxId : deleteNote(id)
    \/ \E c \in BOOLEAN : deleteAllNotes(c)
    \/ \E i \in 1..Len(notes) : handleNoteSelect(notes[i])
    \/ \E id \in 1..MaxId, c \in BOOLEAN : togglePasswordProtection(id, c)
    \/ \E k \in Passwords : submitFresh(k)
    \/ \E k \in Passwords, f \in {"encrypt", "hashPassword", "decrypt"} : submitThrows(k, f)
    \/ onClose
    \/ onRelock
    \/ onRequireUnlock

SpecService == Init /\ [][NextService]_vars

\* ------------------------------------------ the page with suspended submits
\* what the closure of a handlePasswordSubmit call holds while it is
\* suspended at an awaited call of the service
Suspended(password) ==
    [password |-> password, mode |-> passwordDialog.mode,
     noteId |-> passwordDialog.noteId, note |-> NoteById(passwordDialog.noteId),
     activeId |-> activeNote.id]

\* handlePasswordSubmit up to its first await
submitBegin(password) ==
    /\ passwordDialog.isOpen
    /\ ~passwordDialog.isLoading
    /\ passwordDialog.noteId # 0
    /\ IF ~HasNote(passwordDialog.noteId)
       THEN SubmitFail(password, "Note not found", <<>>)
            /\ UNCHANGED <<inflight, svc>>
       ELSE IF /\ passwordDialog.mode = "verify"
               /\ NoteById(passwordDialog.noteId).password = Undefined
       THEN SubmitFail(password, "No password set for this note", <<>>)
            /\ UNCHANGED <<inflight, svc>>
       ELSE /\ Cardinality(inflight) < MaxInflight
            /\ svc.submits < MaxSubmits
            /\ svc' = [svc EXCEPT !.submits = @ + 1]
            /\ passwordDialog.mode = "set" =>
                   Len(NoteById(passwordDialog.noteId).content.layers) < MaxLayers
            /\ Commit(notes, activeNote, unlockedNotes,
                      [passwordDialog EXCEPT !.isLoading = TRUE, !.error = ""],
                      showAIPanel,
                      Step("handlePasswordSubmit", "suspended", password, <<>>))
            /\ inflight' = inflight \cup {Suspended(password)}
    /\ UNCHANGED <<nextId, fields>>

ResumeFail(r, message, calls) ==
    Commit(notes, activeNote, unlockedNotes,
           [passwordDialog EXCEPT !.error = message, !.isLoading = FALSE],
           showAIPanel,
           Step("handlePasswordSubmit", message, r.password, calls))

\* the rest of handlePasswordSubmit once the awaited calls have settled: the
\* setters that take a function see the state of now, everything else is
\* what the closure captured
submitResume(r, salt, iv) ==
    /\ r \in inflight
    /\ inflight' = inflight \ {r}
    /\ IF r.mode = "set"
       THEN LET encryptedContent == Encrypt(r.note.content, r.password, salt, iv)
                passwordHash == hashPassword(r.password)
            IN Commit(SetStored(notes, r.noteId, encryptedContent, passwordHash),
                      IF r.activeId = r.noteId
                      THEN SetProtection(r.note, encryptedContent, passwordHash)
                      ELSE activeNote,
                      AfterSet(unlockedNotes, r.noteId),
                      [passwordDialog EXCEPT !.isOpen = FALSE],
                      showAIPanel,
                      Step("handlePasswordSubmit", "set", r.password,
                           <<"encrypt", "hashPassword">>))
       ELSE /\ salt = 1
            /\ iv = 1
            /\ IF ~HashMatches(hashPassword(r.password), r.note.password)
               THEN ResumeFail(r, IncorrectPasswordMessage, <<"hashPassword">>)
               ELSE IF ~DecryptGate(r.note.content, r.password)
               THEN ResumeFail(r, DecryptErrorMessage, <<"hashPassword", "decrypt">>)
               ELSE Commit(notes,
                           [r.note EXCEPT !.content = Decrypt(r.note.content, r.password)],
                           Unlock(unlockedNotes, r.noteId),
                           [passwordDialog EXCEPT !.isOpen = FALSE],
                           showAIPanel,
                           Step("handlePasswordSubmit", "verified", r.password,
                                <<"hashPassword", "decrypt">>))
    /\ UNCHANGED <<nextId, svc, fields>>

\* The dialog is rendered by a modal dialog primitive: in this specification
\* the page takes input only while the dialog is closed, and the dialog can be
\* dismissed (onOpenChange) at any time, a suspended submit included.
DialogClosed == ~passwordDialog.isOpen

NextAsync ==
    \/ DialogClosed /\ createNewNote
    \/ DialogClosed /\ \E id \in 1..MaxId, prompt \in 0..MaxPw : duplicateNote(id, prompt)
    \/ DialogClosed /\ \E u \in EditorUpdates : updateNote(u)
    \/ DialogClosed /\ \E id \in 1..MaxId : deleteNote(id)
    \/ DialogClosed /\ \E c \in BOOLEAN : deleteAllNotes(c)
    \/ DialogClosed /\ \E i \in 1..Len(notes) : handleNoteSelect(notes[i])
    \/ DialogClosed /\ \E id \in 1..MaxId, c \in BOOLEAN : togglePasswordProtection(id, c)
    \/ DialogClosed /\ onRelock
    \/ DialogClosed /\ onRequireUnlock
    \/ \E k \in Passwords : submitBegin(k)
    \/ \E r \in inflight, salt \in Salts, iv \in Ivs : submitResume(r, salt, iv)
    \/ onClose

SpecAsync == Init /\ [][NextAsync]_vars

\* ------------------------------------------- the service called directly
PageIdle ==
    UNCHANGED <<notes, activeNote, unlockedNotes, passwordDialog, showAIPanel,
                nextId, last, inflight, fields, download>>

\* a caller seals a string under a password
callEncrypt(content, password, s, v) ==
    /\ svc.stage = "idle"
    /\ svc' = [svc EXCEPT !.stage = "sealed", !.content = content,
                          !.password = password,
                          !.envelope = encrypt(content, password, s, v),
                          !.input = encrypt(content, password, s, v)]
    /\ PageIdle

Flip(bytes, i) == [bytes EXCEPT ![i] = [@ EXCEPT !.x = (@ + 1) % 256]]

\* the envelope comes back from the store with the byte at index i altered
flipByte(i) ==
    /\ svc.stage = "sealed"
    /\ svc.change = "none"
    /\ i \in 1..Len(fromBase64(svc.envelope))
    /\ svc' = [svc EXCEPT !.input = toBase64(Flip(fromBase64(svc.envelope), i)),
                          !.change = "flip"]
    /\ PageIdle

\* the envelope comes back from the store cut to its first n bytes
cutShort(n) ==
    /\ svc.stage = "sealed"
    /\ svc.change = "none"
    /\ n \in 0..(Len(fromBase64(svc.envelope)) - 1)
    /\ svc' = [svc EXCEPT !.input = toBase64(SubSeq(fromBase64(svc.envelope), 1, n)),
                          !.change = "cut"]
    /\ PageIdle

\* a caller opens the string it holds with a password
callDecrypt(password) ==
    /\ svc.stage = "sealed"
    /\ svc' = [svc EXCEPT !.stage = "opened", !.attempt = password,
                          !.result = decrypt(svc.input, password)]
    /\ PageIdle

MaxEnvelope == DecIvEnd + 3 * MaxLen + 1

NextCrypto ==
    \/ \E content \in Strings, password \in Passwords, s \in Draws, v \in Draws :
           callEncrypt(content, password, s, v)
    \/ \E i \in 1..MaxEnvelope : flipByte(i)
    \/ \E n \in 0..MaxEnvelope : cutShort(n)
    \/ \E password \in Passwords : callDecrypt(password)

SpecCrypto == Init /\ [][NextCrypto]_vars

\* ------------------------------------------------------------------ claims
SubmitStep(outcome) == last.op = "handlePasswordSubmit" /\ last.outcome = outcome

\* C1: in every reachable state a stored note is protected exactly when its
\* content is a ciphertext envelope: protected notes never hold plaintext and
\* unprotected notes never hold an envelope.
C1_ProtectedIffEnvelope ==
    \A i \in 1..Len(notes) : notes[i].isPasswordProtected <=> IsEnvelope(notes[i].content)

\* C2: every id in unlockedNotes is the id of a stored note whose
\* isPasswordProtected is true.
C2_UnlockedAreProtected ==
    \A id \in unlockedNotes : HasNote(id) /\ NoteById(id).isPasswordProtected

C2_Witness ==
    /\ Len(notes) = 2
    /\ unlockedNotes # {}
    /\ last.op \in {"deleteNote", "togglePasswordProtection", "duplicateNote"}

\* C3: a set-password submit that completes leaves the note with
\* content = encrypt(previous content, password), protected, with the digest of
\* the password, its id absent from unlockedNotes, and the active copy (when it
\* is that note) carrying the encrypted content: the note is locked.
C3_SetProtects ==
    [][SubmitStep("set")' =>
        LET id == passwordDialog.noteId
            before == NoteIn(notes, id)
            after == NoteIn(notes', id)
        IN /\ \E salt \in Salts, iv \in Ivs :
                  after.content = Encrypt(before.content, last'.pw, salt, iv)
           /\ after.isPasswordProtected
           /\ after.password = hashPassword(last'.pw)
           /\ id \notin unlockedNotes'
           /\ IsLocked(after, unlockedNotes')
           /\ activeNote.id = id =>
                  /\ activeNote'.id = id
                  /\ activeNote'.content = after.content
                  /\ isActiveLocked(activeNote', unlockedNotes')]_vars

C3_Witness ==
    /\ SubmitStep("set")
    /\ activeNote.id = passwordDialog.noteId
    /\ IsEnvelope(activeNote.content)
    /\ activeNote.content.pt # 0

\* C4: togglePasswordProtection never changes a locked note (protected, id
\* not in unlockedNotes): protection is cleared only for a note that is
\* unlocked, and a removal attempted while locked leaves the note and
\* unlockedNotes unchanged.
C4_RemoveOnlyWhenUnlocked ==
    [][(last'.op = "togglePasswordProtection") =>
        /\ \A i \in 1..Len(notes) :
               (IsLocked(notes[i], unlockedNotes) /\ IsEnvelope(notes[i].content))
                   => notes'[i] = notes[i]
        /\ (\E i \in 1..Len(notes) : notes'[i] # notes[i]) \/ unlockedNotes' = unlockedNotes]_vars

\* C5: after protection is removed from an unlocked note, the note is
\* unprotected, has no password hash, stores plaintext and is not in
\* unlockedNotes.
C5_RemovedIsPlaintext ==
    [][(last'.op = "togglePasswordProtection" /\ last'.outcome = "removed") =>
        \A i \in 1..Len(notes) :
            (notes[i].isPasswordProtected /\ ~notes'[i].isPasswordProtected
             /\ notes[i].id \in unlockedNotes) =>
                /\ notes'[i].password = Undefined
                /\ IsPlain(notes'[i].content)
                /\ notes[i].id \notin unlockedNotes']_vars

\* C6: an id enters unlockedNotes only in a verify submit whose password
\* hashes to the stored hash and decrypts the stored content; a submit whose
\* hash matched and whose decrypt failed leaves unlockedNotes and activeNote
\* as they were.
C6_UnlockNeedsHashAndDecrypt ==
    [][/\ \A id \in unlockedNotes' \ unlockedNotes :
              /\ SubmitStep("verified")'
              /\ id = passwordDialog.noteId
              /\ hashPassword(last'.pw) = NoteIn(notes, id).password
              /\ DecryptOk(NoteIn(notes, id).content, last'.pw)
       /\ (/\ last'.op = "handlePasswordSubmit"
           /\ passwordDialog.mode = "verify"
           /\ HasNote(passwordDialog.noteId)
           /\ hashPassword(last'.pw) = NoteById(passwordDialog.noteId).password
           /\ ~DecryptOk(NoteById(passwordDialog.noteId).content, last'.pw))
          => /\ unlockedNotes' = unlockedNotes
             /\ activeNote' = activeNote]_vars

C6_Witness ==
    /\ last.op = "handlePasswordSubmit"
    /\ last.calls = <<"hashPassword", "decrypt">>
    /\ last.outcome # "verified"
    /\ HasNote(passwordDialog.noteId)
    /\ hashPassword(last.pw) = NoteById(passwordDialog.noteId).password

\* C7: a verify submit whose password hash differs from the stored hash fails
\* without calling decrypt and leaves notes, unlockedNotes and activeNote
\* unchanged.
C7_HashMismatchFailsFast ==
    [][(/\ last'.op = "handlePasswordSubmit"
        /\ passwordDialog.mode = "verify"
        /\ HasNote(passwordDialog.noteId)
        /\ hashPassword(last'.pw) # NoteById(passwordDialog.noteId).password)
       => /\ \A i \in 1..Len(last'.calls) : last'.calls[i] # "decrypt"
          /\ passwordDialog'.error # ""
          /\ passwordDialog'.isOpen
          /\ notes' = notes
          /\ unlockedNotes' = unlockedNotes
          /\ activeNote' = activeNote]_vars

C7_Witness ==
    /\ last.op = "handlePasswordSubmit"
    /\ passwordDialog.mode = "verify"
    /\ HasNote(passwordDialog.noteId)
    /\ NoteById(passwordDialog.noteId).password # Undefined
    /\ DecryptOk(NoteById(passwordDialog.noteId).content, 1)
    /\ last.pw = 2
    /\ last.calls = <<"hashPassword">>

\* C8: a successful verify puts the note id in unlockedNotes; relock removes
\* the id and only that id, whatever the set held before, and removing it
\* again changes nothing.
C8_VerifyAddsRelockRemoves ==
    [][/\ SubmitStep("verified")' => passwordDialog.noteId \in unlockedNotes'
       /\ last'.op = "onRelock" =>
              /\ activeNote.id \notin unlockedNotes'
              /\ unlockedNotes' = unlockedNotes \ {activeNote.id}
       /\ \A id \in 1..MaxId :
              /\ id \notin Relock(unlockedNotes, id)
              /\ Relock(unlockedNotes, id) \cup {id} = unlockedNotes \cup {id}
              /\ Relock(Relock(unlockedNotes, id), id) = Relock(unlockedNotes, id)]_vars

C8_Witness ==
    /\ last.op = "onRelock"
    /\ unlockedNotes # {}
    /\ activeNote.id \notin unlockedNotes

\* C9: in the step that relocks the active note, the active copy stops
\* holding the decrypted content (checked for notes whose text is not empty).
C9_RelockDropsPlaintext ==
    [][(last'.op = "onRelock" /\ activeNote.content.pt # 0)
       => ~IsPlain(activeNote'.content)]_vars

\* C10: a failed unlock puts the same error string in passwordDialog.error
\* whether it failed at the hash comparison or at the decrypt stage.
C10_SameErrorForBothStages ==
    (/\ last.op = "handlePasswordSubmit"
     /\ last.calls = <<"hashPassword", "decrypt">>
     /\ last.outcome # "verified")
    => passwordDialog.error = IncorrectPasswordMessage

\* C11: duplicating a protected note (unlocked, or locked with the right
\* password at the prompt) stores a copy whose content is an envelope of the
\* same text under the same password, and is neither the original's stored
\* content nor plaintext.
C11_DuplicateReencrypts ==
    [][\A id \in 1..MaxId, p \in 0..MaxPw :
          (/\ duplicateNote(id, p)
           /\ NoteById(id).isPasswordProtected
           /\ Len(notes') > Len(notes))
          => LET original == NoteById(id)
                 copy == notes'[1]
             IN /\ IsEnvelope(copy.content)
                /\ copy.content # original.content
                /\ \A k \in Passwords :
                       original.password = hashPassword(k) => DecryptOk(copy.content, k)]_vars

\* C12: duplicating a locked note (protected, id not in unlockedNotes) with
\* no password at the prompt, with a password whose hash differs from the
\* stored hash, or with a password that does not decrypt the stored content,
\* creates no note: notes, unlockedNotes and activeNote stay as they were.
C12_FailedDuplicateCreatesNothing ==
    [][\A id \in 1..MaxId, p \in 0..MaxPw :
          (/\ duplicateNote(id, p)
           /\ IsLocked(NoteById(id), unlockedNotes)
           /\ LET original == NoteById(id)
                  layers == original.content.layers
              IN \/ p = 0
                 \/ hashPassword(p) # original.password
                 \/ layers = <<>>
                 \/ layers[Len(layers)].key # p)
          => /\ notes' = notes
             /\ unlockedNotes' = unlockedNotes
             /\ activeNote' = activeNote]_vars

C12_Witness ==
    /\ last.op = "duplicateNote"
    /\ last.outcome = "Failed to decrypt"
    /\ last.calls = <<"hashPassword", "decrypt">>
    /\ \E i \in 1..Len(notes) :
           /\ IsLocked(notes[i], unlockedNotes)
           /\ notes[i].password = hashPassword(last.pw)

\* C16: in every reachable state a stored note that is protected carries the
\* digest hashPassword gives for the password its content is sealed under,
\* and a stored note that is not protected carries no password field; notes
\* made by duplicateNote included.
C16_HashIffProtected ==
    \A i \in 1..Len(notes) :
        IF notes[i].isPasswordProtected
        THEN \E k \in Passwords :
                 /\ notes[i].password = hashPassword(k)
                 /\ DecryptOk(notes[i].content, k)
        ELSE notes[i].password = Undefined

\* C19: deleteNote(N) takes N out of notes and out of unlockedNotes in one
\* step and keeps every other note and every other unlocked id; when N was
\* the active note, the active note becomes a remaining note or null;
\* a confirmed deleteAllNotes leaves no note, no unlocked id and no active
\* note.
C19_DeleteClearsUnlock ==
    [][/\ \A id \in 1..MaxId :
              deleteNote(id) =>
                  /\ notes' = FilterOut(notes, id)
                  /\ \A i \in 1..Len(notes') : notes'[i].id # id
                  /\ unlockedNotes' = unlockedNotes \ {id}
                  /\ \A u \in unlockedNotes' : \E i \in 1..Len(notes') : notes'[i].id = u
                  /\ activeNote.id = id =>
                         \/ activeNote' = Null
                         \/ \E i \in 1..Len(notes') : activeNote' = notes'[i]
                  /\ activeNote.id # id => activeNote' = activeNote
       /\ deleteAllNotes(TRUE) =>
              /\ notes' = <<>>
              /\ unlockedNotes' = {}
              /\ activeNote' = Null]_vars

C19_Witness ==
    /\ last.op = "deleteNote"
    /\ Len(notes) = 1
    /\ activeNote = notes[1]
    /\ notes[1].isPasswordProtected
    /\ nextId > MaxId
    /\ unlockedNotes = {}

\* C20: a verify submit that succeeds leaves the notes collection (and so
\* the stored envelope of the unlocked note), the AI panel flag and the id
\* counter as they were; it adds the id to unlockedNotes, puts the decrypted
\* content in activeNote only, and closes the dialog.
C20_VerifyKeepsNotes ==
    [][SubmitStep("verified")' =>
        LET id == passwordDialog.noteId
        IN /\ notes' = notes
           /\ IsEnvelope(NoteIn(notes', id).content)
           /\ unlockedNotes' = unlockedNotes \cup {id}
           /\ activeNote'.id = id
           /\ activeNote'.content = Decrypt(NoteIn(notes, id).content, last'.pw)
           /\ activeNote'.content # NoteIn(notes', id).content
           /\ ~passwordDialog'.isOpen
           /\ showAIPanel' = showAIPanel
           /\ nextId' = nextId]_vars

C20_Witness ==
    /\ SubmitStep("verified")
    /\ activeNote.id = passwordDialog.noteId
    /\ activeNote.id \in unlockedNotes
    /\ IsPlain(activeNote.content)
    /\ activeNote.content.pt # 0
    /\ IsEnvelope(NoteById(activeNote.id).content)

\* C13: a string sealed by encrypt and opened by decrypt with the same
\* password, the envelope untouched, comes back exactly as it was given,
\* whatever salt and iv were drawn.
C13_RoundTrip ==
    (svc.stage = "opened" /\ svc.change = "none" /\ svc.attempt = svc.password)
        => svc.result = Returned(svc.content)

\* C14: decrypt returns a string only for the password the envelope was
\* sealed with and only for the envelope as encrypt made it; with another
\* password, with a byte of the envelope altered, or with an envelope cut
\* short (shorter than salt and iv included) it throws its Error and returns
\* nothing.
C14_DecryptFailsClosed ==
    svc.stage = "opened" =>
        /\ svc.result.ok => (svc.attempt = svc.password /\ svc.input = svc.envelope)
        /\ (svc.attempt # svc.password \/ svc.change # "none") =>
               svc.result = Thrown(DecryptErrorMessage)
        /\ Len(fromBase64(svc.input)) < DecIvEnd => svc.result = Thrown(DecryptErrorMessage)

C14_Witness ==
    /\ svc.stage = "opened"
    /\ svc.change = "flip"
    /\ svc.attempt = svc.password
    /\ svc.content # <<>>
    /\ fromBase64(svc.input)[DecIvEnd + 1] # fromBase64(svc.envelope)[DecIvEnd + 1]
    /\ ~svc.result.ok

\* C15: with salts and ivs drawn as values never drawn before, no two stored
\* protected notes hold envelopes sealed under the same password with the
\* same salt or the same iv, duplicates included.
C15_NoSharedSaltOrIv ==
    \A i, j \in 1..Len(notes) :
        (/\ i # j
         /\ IsEnvelope(notes[i].content)
         /\ IsEnvelope(notes[j].content)
         /\ notes[i].content.layers[1].key = notes[j].content.layers[1].key
         /\ notes[i].password = hashPassword(notes[i].content.layers[1].key)
         /\ notes[j].password = hashPassword(notes[j].content.layers[1].key))
        => /\ notes[i].content.layers[1].salt # notes[j].content.layers[1].salt
           /\ notes[i].content.layers[1].iv # notes[j].content.layers[1].iv

\* C17: a password submit in which encrypt, hashPassword or decrypt fails
\* leaves notes, unlockedNotes and activeNote as they were and reports the
\* error in the open dialog; and in every submit a note's protection flag
\* changes exactly when its content changes.
C17_FailedSubmitChangesNothing ==
    [][/\ (/\ last'.op = "handlePasswordSubmit"
           /\ last'.outcome \notin {"set", "verified"}
           /\ last'.calls # <<>>)
          => /\ notes' = notes
             /\ unlockedNotes' = unlockedNotes
             /\ activeNote' = activeNote
             /\ passwordDialog'.isOpen
             /\ passwordDialog'.error = last'.outcome
       /\ last'.op = "handlePasswordSubmit"
          => /\ Len(notes') = Len(notes)
             /\ \A i \in 1..Len(notes) :
                    (notes'[i].isPasswordProtected # notes[i].isPasswordProtected)
                        <=> (notes'[i].content # notes[i].content)]_vars

C17_Witness ==
    /\ last.op = "handlePasswordSubmit"
    /\ last.outcome = EncryptErrorMessage
    /\ passwordDialog.isOpen
    /\ passwordDialog.error = EncryptErrorMessage
    /\ HasNote(passwordDialog.noteId)
    /\ ~NoteById(passwordDialog.noteId).isPasswordProtected
    /\ NoteById(passwordDialog.noteId).content = Plain(1)

\* C18: a set-password submit never changes a note that is already
\* protected: its content is not sealed again and its hash is not replaced.
C18_SetOnlyUnprotected ==
    [][SubmitStep("set")' =>
        /\ Len(notes') = Len(notes)
        /\ \A i \in 1..Len(notes) :
               notes[i].isPasswordProtected => notes'[i] = notes[i]]_vars

\* C21: duplicating a note that is not protected stores a copy that is not
\* protected, carries no password field and holds the original's content, so
\* the copy, which becomes the active note, is not locked.
C21_DuplicateOfOpenIsOpen ==
    [][\A id \in 1..MaxId :
          (/\ duplicateNote(id, 0)
           /\ ~NoteById(id).isPasswordProtected)
          => LET original == NoteById(id)
                 copy == notes'[1]
             IN /\ Len(notes') = Len(notes) + 1
                /\ ~copy.isPasswordProtected
                /\ copy.password = Undefined
                /\ copy.content = original.content
                /\ activeNote' = copy
                /\ ~isActiveLocked(activeNote', unlockedNotes')]_vars

\* C30: with every handler run to completion, the active note is always
\* null or a note whose id is the id of a stored note; the step that deletes
\* the active note leaves as active note a remaining stored note or null,
\* never the deleted one.
C30_ActiveNoteIsStored ==
    /\ [](activeNote = Null \/ HasNote(activeNote.id))
    /\ [][\A id \in 1..MaxId :
             (deleteNote(id) /\ activeNote.id = id)
             => /\ activeNote'.id # id
                /\ \/ activeNote' = Null /\ notes' = <<>>
                   \/ activeNote' = notes'[1]]_vars

C30_Witness ==
    /\ last.op = "deleteNote"
    /\ nextId > MaxId
    /\ Len(notes) = 1
    /\ activeNote = notes[1]
    /\ activeNote.isPasswordProtected
    /\ activeNote.id \notin unlockedNotes

\* C25: a protected note can always be unlocked with the password it was
\* protected with: every verify submit on a stored note that is protected,
\* made with the password whose digest the note carries, succeeds (the hash
\* matches and the stored content decrypts) and puts the id in unlockedNotes;
\* after unlock, edit and relock, and for the notes that duplicateNote made.
C25_ProtectedStaysUnlockable ==
    [][(/\ last'.op = "handlePasswordSubmit"
        /\ passwordDialog.mode = "verify"
        /\ HasNote(passwordDialog.noteId)
        /\ NoteById(passwordDialog.noteId).isPasswordProtected
        /\ NoteById(passwordDialog.noteId).password = hashPassword(last'.pw))
       => /\ SubmitStep("verified")'
          /\ DecryptOk(NoteById(passwordDialog.noteId).content, last'.pw)
          /\ passwordDialog.noteId \in unlockedNotes']_vars

\* C29: when a submit for note N resumes after N was deleted, lost its
\* protection or was edited while the submit was suspended, the resumed submit
\* keeps the state sound: it adds N's id to unlockedNotes only if N is still
\* stored and protected, it makes no deleted note the active note, and the
\* content it stores is the envelope of the content N holds now.
C29_ResumeKeepsInvariants ==
    [][\A r \in inflight, salt \in Salts, iv \in Ivs :
          submitResume(r, salt, iv)
          => /\ r.noteId \in unlockedNotes' \ unlockedNotes
                    => HasNote(r.noteId) /\ NoteById(r.noteId).isPasswordProtected
             /\ activeNote' # activeNote
                    => \E i \in 1..Len(notes') : notes'[i].id = activeNote'.id
             /\ (HasNote(r.noteId) /\ notes' # notes)
                    => NoteIn(notes', r.noteId).content
                           = Encrypt(NoteById(r.noteId).content, r.password, salt, iv)]_vars

\* C23: handleNoteSelect on a locked note (protected, id not in
\* unlockedNotes) leaves activeNote, notes and unlockedNotes as they were and
\* opens the dialog in verify mode for that id, with no error and not loading;
\* on any other note it makes that note the active note and leaves the dialog
\* as it was.  A load of the page makes no protected note the active note:
\* the active note is then the first stored note that is not protected, or
\* null.
C23_SelectNeverOpensLocked ==
    [][/\ \A i \in 1..Len(notes) :
              handleNoteSelect(notes[i]) =>
                  /\ notes' = notes
                  /\ unlockedNotes' = unlockedNotes
                  /\ IF notes[i].isPasswordProtected /\ notes[i].id \notin unlockedNotes
                     THEN /\ activeNote' = activeNote
                          /\ passwordDialog' =
                                 [isOpen |-> TRUE, mode |-> "verify", noteId |-> notes[i].id,
                                  isLoading |-> FALSE, error |-> ""]
                     ELSE /\ activeNote' = notes[i]
                          /\ passwordDialog' = passwordDialog
       /\ \A sameSession \in BOOLEAN :
              mount(sameSession) =>
                  /\ ~activeNote'.isPasswordProtected
                  /\ \/ /\ activeNote' = Null
                        /\ \A i \in 1..Len(notes') : notes'[i].isPasswordProtected
                     \/ \E i \in 1..Len(notes') :
                            /\ activeNote' = notes'[i]
                            /\ \A j \in 1..(i - 1) : notes'[j].isPasswordProtected]_vars

C23_Witness ==
    /\ last.op = "handleNoteSelect"
    /\ last.outcome = "dialog"
    /\ activeNote = Null
    /\ Len(notes) = 2
    /\ passwordDialog.isOpen
    /\ passwordDialog.noteId = notes[2].id

\* C26: whenever the active note is protected and its id is in
\* unlockedNotes, the content of the active note is plaintext and not a
\* ciphertext envelope; also after an unlocked note is selected again and
\* after unlockedNotes came back from sessionStorage at a load of the page.
C26_UnlockedActiveIsPlaintext ==
    (/\ activeNote # Null
     /\ activeNote.isPasswordProtected
     /\ activeNote.id \in unlockedNotes)
    => IsPlain(activeNote.content)

\* C27: an editor update of the active note (updateNote with a copy of
\* activeNote in which only the content changed) changes only the content of
\* the stored note: isPinned, isPasswordProtected and password of the stored
\* note stay what togglePin, a set-password submit or a removal of protection
\* made them.
C27_EditKeepsStoredFlags ==
    [][\A u \in EditorUpdates :
          (updateNote(u) /\ HasNote(u.id))
          => LET before == NoteById(u.id)
                 after == NoteIn(notes', u.id)
             IN /\ after.content = u.content
                /\ after.isPinned = before.isPinned
                /\ after.isPasswordProtected = before.isPasswordProtected
                /\ after.password = before.password]_vars

\* C24: on a submit event the dialog calls onSubmit with the password exactly
\* when the password is neither empty nor white space only and, in set mode,
\* equals the confirmation field; otherwise nothing is called and the state
\* of the page stays as it was.  Whenever the submit button is enabled, the
\* submit event reaches onSubmit.
C24_SubmitOnlyWhenValid ==
    [][handleSubmit =>
        LET pw == fields.password
            valid == /\ pw # 0
                     /\ pw # Blank
                     /\ passwordDialog.mode = "set" => pw = fields.confirmPassword
        IN /\ IF valid
              THEN last'.op = "handlePasswordSubmit" /\ last'.pw = pw
              ELSE /\ last'.op = "handleSubmit"
                   /\ notes' = notes
                   /\ activeNote' = activeNote
                   /\ unlockedNotes' = unlockedNotes
                   /\ passwordDialog' = passwordDialog
                   /\ showAIPanel' = showAIPanel
           /\ SubmitEnabled(passwordDialog.isLoading, passwordDialog.mode, pw,
                            fields.confirmPassword) => valid]_vars

C24_Witness ==
    /\ last.op = "handleSubmit"
    /\ last.outcome = "ignored"
    /\ passwordDialog.isOpen
    /\ passwordDialog.mode = "set"
    /\ fields.password \in Passwords
    /\ fields.confirmPassword \in Passwords
    /\ fields.password # fields.confirmPassword
    /\ HasNote(passwordDialog.noteId)
    /\ ~NoteById(passwordDialog.noteId).isPasswordProtected

\* C28: in every step that takes the password dialog from closed to open,
\* its password and confirmation fields are empty afterwards, whether the
\* dialog was closed by a submit that succeeded or by a cancel.
C28_FieldsEmptyOnOpen ==
    [][(~passwordDialog.isOpen /\ passwordDialog'.isOpen) => fields' = EmptyFields]_vars

\* C22: for every stored note that is locked (protected, id not in
\* unlockedNotes) nothing the page puts out depends on its content: exportNote
\* and exportAllNotes write the placeholder for it, the search filter keeps
\* or drops it on title and tags alone, the sidebar shows the fixed locked
\* text, and while it is the active note the AI panel is not rendered and
\* showAIPanel is false.
C22_LockedContentNeverShown ==
    /\ [](\A i \in 1..Len(notes) :
              IsLocked(notes[i], unlockedNotes) =>
                  /\ \A titleHit \in BOOLEAN, contentHit \in BOOLEAN, tagHit \in BOOLEAN :
                         filteredNotes(notes[i], unlockedNotes, titleHit, contentHit, tagHit)
                             = (titleHit \/ tagHit)
                  /\ getDisplayContent(notes[i], unlockedNotes) = LockedPreview
                  /\ activeNote.id = notes[i].id => (~AIPanelRendered /\ ~showAIPanel))
    /\ [][/\ \A id \in 1..MaxId :
                 (exportNote(id) /\ IsLocked(NoteById(id), unlockedNotes))
                     => download' = <<ProtectedPlaceholder>>
          /\ exportAllNotes =>
                 /\ Len(download') = Len(notes)
                 /\ \A i \in 1..Len(notes) :
                        IsLocked(notes[i], unlockedNotes) => download'[i] = ProtectedPlaceholder]_vars
====
